---------------------------- MODULE Spec2Model ----------------------------
(***************************************************************************)
(* Model of lib/stlinkusb.py: StlinkUsbConnector.                          *)
(*                                                                         *)
(*   - the constructor (device discovery and selection), modelled one      *)
(*     iteration of its outer scan loop at a time (SpecLocate);            *)
(*   - xfer / _write / _read (command framing, retry loop, transfer       *)
(*     counter), modelled one USB call at a time (Spec).                   *)
(*                                                                         *)
(* Text strings are sequences of character codes.  None, a string and a    *)
(* raised exception are told apart by a "kind" field.  self._dbg is a      *)
(* logger whose calls return; the arguments of a log call are evaluated    *)
(* before it, so an exception raised while they are built leaves the       *)
(* method.                                                                 *)
(***************************************************************************)
EXTENDS Integers, Sequences, FiniteSets, TLC

(***************************************************************************)
(* Bounds of the model.                                                    *)
(***************************************************************************)
MaxDevices == 3
MaxRetry == 2
MaxCounter == 2
MaxRuns == 3

(***************************************************************************)
(* Python values.                                                          *)
(***************************************************************************)
None == [kind |-> "none", val |-> <<>>]
Str(s) == [kind |-> "str", val |-> s]
Raise(e) == [kind |-> "raise", val |-> e]

\* Python truthiness of an optional string: None and "" are falsy.
Truthy(v) == v.kind = "str" /\ v.val # <<>>

Min(a, b) == IF a < b THEN a ELSE b

\* s[:n]
Take(s, n) == SubSeq(s, 1, Min(n, Len(s)))

\* the sequence of n copies of x: [x] * n
Repeat(x, n) == [i \in 1..n |-> x]

(***************************************************************************)
(* DEV_TYPES, the table of known probe variants.                           *)
(***************************************************************************)
DEV_TYPES ==
  << [version |-> "V2",   idVendor |-> 1155, idProduct |-> 14152, outPipe |-> 2, inPipe |-> 129],
     [version |-> "V2-1", idVendor |-> 1155, idProduct |-> 14155, outPipe |-> 1, inPipe |-> 129],
     [version |-> "V2-1", idVendor |-> 1155, idProduct |-> 14162, outPipe |-> 1, inPipe |-> 129],
     [version |-> "V3E",  idVendor |-> 1155, idProduct |-> 14158, outPipe |-> 1, inPipe |-> 129],
     [version |-> "V3",   idVendor |-> 1155, idProduct |-> 14159, outPipe |-> 1, inPipe |-> 129],
     [version |-> "V3",   idVendor |-> 1155, idProduct |-> 14163, outPipe |-> 1, inPipe |-> 129] >>

(***************************************************************************)
(* Text formatting.                                                        *)
(***************************************************************************)
\* one lowercase hexadecimal digit, as a character code
HexDigit(d) == IF d < 10 THEN 48 + d ELSE 87 + d

\* "%x" % n
RECURSIVE HexStr(_)
HexStr(n) == IF n < 16 THEN <<HexDigit(n)>>
             ELSE HexStr(n \div 16) \o <<HexDigit(n % 16)>>

\* "%.2x" % n : at least two digits, zero padded
Hex2(n) == IF n < 16 THEN <<48, HexDigit(n)>> ELSE HexStr(n)

\* f"{n:4x}" : at least four characters, space padded on the left
Hex4(n) == LET h == HexStr(n)
           IN IF Len(h) < 4 THEN Repeat(32, 4 - Len(h)) \o h ELSE h

\* str(n) for n >= 0
RECURSIVE DecStr(_)
DecStr(n) == IF n < 10 THEN <<48 + n>>
             ELSE DecStr(n \div 10) \o <<48 + (n % 10)>>

\* sep.join(s) over the characters of the string s
RECURSIVE JoinChars(_, _)
JoinChars(sep, s) ==
  IF Len(s) <= 1 THEN s
  ELSE <<Head(s)>> \o sep \o JoinChars(sep, Tail(s))

\* ''.join(["%.2x" % ord(c) for c in list(serial)])
RECURSIVE HexDump(_)
HexDump(s) == IF s = <<>> THEN <<>> ELSE Hex2(Head(s)) \o HexDump(Tail(s))

(***************************************************************************)
(* _generate_device_unique_id.                                             *)
(***************************************************************************)
\* str(locations) for the tuple (bus, address): "(bus, address)"
TupleRepr(bus, address) ==
  <<40>> \o DecStr(bus) \o <<44, 32>> \o DecStr(address) \o <<41>>

\* The text that is hashed: f"{vid:4x},{pid:4x}," + ",".join(str(locations))
IdText(vid, pid, bus, address) ==
  Hex4(vid) \o <<44>> \o Hex4(pid) \o <<44>> \o JoinChars(<<44>>, TupleRepr(bus, address))

\* sha1(s).digest(): 20 bytes that depend on the text alone.  SHA-1 itself is
\* library code; a positional checksum stands in for it here.
RECURSIVE WeightedSum(_, _, _)
WeightedSum(s, k, w) ==
  IF k > Len(s) THEN 0 ELSE (s[k] * (k + w) + WeightedSum(s, k + 1, w)) % 256

Sha1Digest(s) == [i \in 1..20 |-> WeightedSum(s, 1, i)]

\* one character of the base-32 alphabet A-Z 2-7
B32Char(v) == IF v < 26 THEN 65 + v ELSE 24 + v

\* the 8 characters that encode 5 bytes
B32Group(b) ==
  << B32Char(b[1] \div 8),
     B32Char((b[1] % 8) * 4 + b[2] \div 64),
     B32Char((b[2] \div 2) % 32),
     B32Char((b[2] % 2) * 16 + b[3] \div 16),
     B32Char((b[3] % 16) * 2 + b[4] \div 128),
     B32Char((b[4] \div 4) % 32),
     B32Char((b[4] % 4) * 8 + b[5] \div 32),
     B32Char(b[5] % 32) >>

\* b32encode of a byte string whose length is a multiple of 5
RECURSIVE B32Encode(_)
B32Encode(b) ==
  IF Len(b) < 5 THEN <<>>
  ELSE B32Group(SubSeq(b, 1, 5)) \o B32Encode(SubSeq(b, 6, Len(b)))

_generate_device_unique_id(vid, pid, bus, address) ==
  B32Encode(Sha1Digest(IdText(vid, pid, bus, address)))

(***************************************************************************)
(* _get_serial.                                                            *)
(***************************************************************************)
\* the character class [0-9a-fA-f] of the regular expression: the range A-f
\* covers the codes 65..102
InClass(c) == (c >= 48 /\ c <= 57) \/ (c >= 97 /\ c <= 102) \/ (c >= 65 /\ c <= 102)

\* index of the first character of s at or after k that is in the class,
\* 0 when there is none
RECURSIVE FirstInClass(_, _)
FirstInClass(s, k) ==
  IF k > Len(s) THEN 0
  ELSE IF InClass(s[k]) THEN k ELSE FirstInClass(s, k + 1)

\* index of the last character of the run of class characters starting at k
RECURSIVE RunEnd(_, _)
RunEnd(s, k) ==
  IF k < Len(s) /\ InClass(s[k + 1]) THEN RunEnd(s, k + 1) ELSE k

\* re.search("[0-9a-fA-f]+", s): the leftmost match, taken greedily, as
\* [start, end) like span(); None when nothing matches
re_search(s) ==
  LET k == FirstInClass(s, 1)
  IN IF k = 0 THEN [kind |-> "none", span |-> <<0, 0>>]
     ELSE [kind |-> "match", span |-> <<k - 1, RunEnd(s, k)>>]

\* usb.util.get_string on the device: its outcome is a field of the device
\* (a string, None, or USBError/ValueError raised).
_get_serial(dev) ==
  LET serial == IF dev.iSerial.kind = "raise"
                THEN Str(_generate_device_unique_id(dev.idProduct, dev.idVendor,
                                                   dev.bus, dev.address))
                ELSE dev.iSerial
  IN IF serial.kind = "none" THEN None
     ELSE LET m == re_search(serial.val)
          IN IF m.kind = "none" THEN Raise("AttributeError")
             ELSE IF m.span[2] # 24 THEN Str(HexDump(serial.val))
             ELSE serial

(***************************************************************************)
(* The enumerated USB devices the constructor is run against.              *)
(***************************************************************************)
\* a 24-character hexadecimal hardware serial
HexSerial == [i \in 1..24 |-> HexDigit(i % 16)]
\* a short hardware serial, "1A"
ShortSerial == <<49, 65>>
\* a hardware serial with no character of the class [0-9a-fA-f], "zz"
OtherSerial == <<122, 122>>

\* What usb.core.find can report for one device, without its bus position.
DeviceKinds ==
  { [idVendor |-> 1155, idProduct |-> 14152, iSerial |-> Str(HexSerial)],
    [idVendor |-> 1155, idProduct |-> 14152, iSerial |-> Str(ShortSerial)],
    [idVendor |-> 1155, idProduct |-> 14155, iSerial |-> Raise("USBError")],
    [idVendor |-> 1155, idProduct |-> 14159, iSerial |-> Str(OtherSerial)],
    [idVendor |-> 1155, idProduct |-> 22336, iSerial |-> None] }

\* usb.core.find(find_all=True): up to MaxDevices devices, each at its own
\* address on bus 1.
DeviceLists ==
  UNION { { [i \in 1..n |-> [idVendor |-> k[i].idVendor, idProduct |-> k[i].idProduct,
                             iSerial |-> k[i].iSerial, bus |-> 1, address |-> i]] :
            k \in [1..n -> DeviceKinds] } : n \in 0..MaxDevices }

\* The serial argument: None, "", and identities as _get_serial reports them.
SerialArgs ==
  { None, Str(<<>>), Str(HexSerial), Str(HexDump(ShortSerial)),
    Str(HexDump(_generate_device_unique_id(14155, 1155, 1, 1))) }

IndexArgs == 0..MaxDevices

VARIABLES
  devices,           \* usb.core.find(find_all=True), as a list
  serial,            \* the serial argument of the constructor
  index,             \* the index argument of the constructor
  lpc,               \* where the constructor is: "scan", "after", "returned", "raised"
  pos,               \* number of devices the outer loop has taken
  self_dev,          \* self._dev: 0 for None, else the position of the device in devices
  self_dev_type,     \* self._dev_type: 0 for None, else the position in DEV_TYPES
  num_stlink,
  multiple_devices,
  raised,            \* the exception the constructor raised, "none" if none
  self_xfer_counter, \* self._xfer_counter
  xpc,               \* where xfer is: "idle", "top", "write_cmd", "write_data", "read", "returned", "raised"
  cmd,               \* the cmd list of the running call (xfer pads it in place)
  data,              \* the data argument
  rx_len,            \* the rx_len argument
  retry,             \* the retry local, counted down by the handler
  tout,              \* the tout argument
  call,              \* the arguments and the counter at the time of the call
  attempts,          \* passes of the while loop started in this call
  usb,               \* the USB calls this call has issued, in order
  result,            \* what the call returned or raised
  identity           \* what a self._get_serial() call run on its own gave, Unset before it

lvars == <<devices, serial, index, lpc, pos, self_dev, self_dev_type, num_stlink,
           multiple_devices, raised>>

xvars == <<self_xfer_counter, xpc, cmd, data, rx_len, retry, tout, call, attempts, usb,
           result>>

ivars == <<identity>>

vars == <<lvars, xvars, ivars>>

Unset == [kind |-> "unset", val |-> <<>>]

NotConnected == "StlinkException: ST-Link/V2 is not connected"
FoundMultiple == "StlinkException: Found multiple devices. Select one with -s SERIAL or -n INDEX"

\* the vendor ID alone is compared
MatchesVendorOnly(dev, dev_type) == dev.idVendor = dev_type.idVendor

\* dev.idVendor == dev_type['idVendor'] and dev.idProduct == dev_type['idProduct']
Matches(dev, dev_type) ==
  dev.idVendor = dev_type.idVendor /\ dev.idProduct = dev_type.idProduct

\* self._get_serial() with self._dev the device at position d
SelfSerial(d) == _get_serial(devices[d])

\* One pass of the inner loop body for the device at position d and the
\* descriptor at position t, on the locals st.
InnerBody(st, d, t) ==
  IF st.exc # "none" \/ ~Matches(devices[d], DEV_TYPES[t]) THEN st
  ELSE LET again == ~Truthy(serial) /\ index = 0 /\ st.dev # 0
       IN IF again /\ SelfSerial(st.dev).kind = "raise"
          THEN [st EXCEPT !.multi = TRUE, !.exc = SelfSerial(st.dev).val]
          ELSE [dev |-> d, dev_type |-> t, num |-> st.num + 1,
                multi |-> st.multi \/ again, exc |-> "none"]

\* for dev_type in StlinkUsbConnector.DEV_TYPES: ... from descriptor t on
RECURSIVE InnerLoop(_, _, _)
InnerLoop(st, d, t) ==
  IF t > Len(DEV_TYPES) THEN st ELSE InnerLoop(InnerBody(st, d, t), d, t + 1)

\* if self._dev and serial and serial == self._get_serial(): break
\* "raise" when _get_serial raises, else whether the loop breaks
SerialBreak(st) ==
  IF st.dev # 0 /\ Truthy(serial)
  THEN IF SelfSerial(st.dev).kind = "raise" THEN "raise"
       ELSE IF serial = SelfSerial(st.dev) THEN "break" ELSE "go"
  ELSE "go"

\* if self._dev and serial == None and index == num_stlink: break
IndexBreak(st) == st.dev # 0 /\ serial = None /\ index = st.num

\* self._xfer_counter = 0, and no transfer before the constructor returns
NoTransfer ==
  /\ self_xfer_counter = 0
  /\ xpc = "idle"
  /\ cmd = <<>>
  /\ data = None
  /\ rx_len = None
  /\ retry = 0
  /\ tout = 200
  /\ call = [cmd |-> <<>>, retry |-> 0, counter |-> 0]
  /\ attempts = 0
  /\ usb = <<>>
  /\ result = None

InitLocate ==
  /\ NoTransfer
  /\ identity = Unset
  /\ devices \in DeviceLists
  /\ serial \in SerialArgs
  /\ index \in IndexArgs
  /\ lpc = "scan"
  /\ pos = 0
  /\ self_dev = 0
  /\ self_dev_type = 0
  /\ num_stlink = 0
  /\ multiple_devices = FALSE
  /\ raised = "none"

\* One iteration of "for dev in devices".
ScanDevice ==
  /\ lpc = "scan"
  /\ pos < Len(devices)
  /\ LET st == InnerLoop([dev |-> self_dev, dev_type |-> self_dev_type, num |-> num_stlink,
                          multi |-> multiple_devices, exc |-> "none"], pos + 1, 1)
         sb == IF st.exc # "none" THEN "raise" ELSE SerialBreak(st)
     IN /\ pos' = pos + 1
        /\ self_dev' = st.dev
        /\ self_dev_type' = st.dev_type
        /\ num_stlink' = st.num
        /\ multiple_devices' = st.multi
        /\ raised' = IF st.exc # "none" THEN st.exc
                     ELSE IF sb = "raise" THEN SelfSerial(st.dev).val ELSE "none"
        /\ lpc' = IF sb = "raise" THEN "raised"
                  ELSE IF sb = "break" \/ IndexBreak(st) THEN "after" ELSE "scan"
  /\ UNCHANGED <<devices, serial, index>>

\* the loop is over: by break, or because the devices are exhausted
LoopOver == lpc = "after" \/ (lpc = "scan" /\ pos = Len(devices))

\* if multiple_devices: log, then raise "Found multiple devices"
RaiseMultiple ==
  /\ LoopOver
  /\ multiple_devices
  /\ lpc' = "raised"
  /\ raised' = IF SelfSerial(self_dev).kind = "raise" THEN SelfSerial(self_dev).val
               ELSE FoundMultiple
  /\ UNCHANGED <<devices, serial, index, pos, self_dev, self_dev_type, num_stlink,
                 multiple_devices>>

\* if self._dev: log, then return
Return ==
  /\ LoopOver
  /\ ~multiple_devices
  /\ self_dev # 0
  /\ IF SelfSerial(self_dev).kind = "raise"
     THEN lpc' = "raised" /\ raised' = SelfSerial(self_dev).val
     ELSE lpc' = "returned" /\ raised' = "none"
  /\ UNCHANGED <<devices, serial, index, pos, self_dev, self_dev_type, num_stlink,
                 multiple_devices>>

\* raise "ST-Link/V2 is not connected"
RaiseNotConnected ==
  /\ LoopOver
  /\ ~multiple_devices
  /\ self_dev = 0
  /\ lpc' = "raised"
  /\ raised' = NotConnected
  /\ UNCHANGED <<devices, serial, index, pos, self_dev, self_dev_type, num_stlink,
                 multiple_devices>>

NextLocate ==
  \/ ScanDevice /\ UNCHANGED <<xvars, ivars>>
  \/ RaiseMultiple /\ UNCHANGED <<xvars, ivars>>
  \/ Return /\ UNCHANGED <<xvars, ivars>>
  \/ RaiseNotConnected /\ UNCHANGED <<xvars, ivars>>

SpecLocate == InitLocate /\ [][NextLocate]_vars

(***************************************************************************)
(* _get_serial on its own, over the strings usb.util.get_string can give.  *)
(***************************************************************************)
\* characters the strings are made of: "a", "F", "G", "z"
RunChars == {97, 70, 71, 122}
RunLens == {1, 2, 22, 24}

\* the strings of n runs, each run one character repeated
RECURSIVE TextsOfRuns(_)
TextsOfRuns(n) ==
  IF n = 0 THEN {<<>>}
  ELSE {Repeat(c, k) \o s : c \in RunChars, k \in RunLens, s \in TextsOfRuns(n - 1)}

SerialTexts == UNION {TextsOfRuns(n) : n \in 0..MaxRuns}

\* The constructor has selected the only attached device, a probe whose
\* serial string is one of SerialTexts, and is about to log its identity.
InitSerial ==
  /\ devices \in { << [idVendor |-> 1155, idProduct |-> 14152, iSerial |-> Str(s),
                       bus |-> 1, address |-> 1] >> : s \in SerialTexts }
  /\ serial = None
  /\ index = 0
  /\ lpc = "scan"
  /\ pos = 1
  /\ self_dev = 1
  /\ self_dev_type = 1
  /\ num_stlink = 1
  /\ multiple_devices = FALSE
  /\ raised = "none"
  /\ NoTransfer
  /\ identity = Unset

\* self._get_serial()
GetSerial ==
  /\ self_dev # 0
  /\ identity = Unset
  /\ identity' = SelfSerial(self_dev)
  /\ UNCHANGED <<lvars, xvars>>

NextSerial == GetSerial

SpecSerial == InitSerial /\ [][NextSerial]_vars

(***************************************************************************)
(* xfer, _write, _read.                                                    *)
(***************************************************************************)
STLINK_CMD_SIZE_V2 == 16

Num(n) == [kind |-> "int", val |-> n]
List(s) == [kind |-> "list", val |-> s]

TooManyBytes == "StlinkException: Error too many Bytes in command"
ShortWrite == "StlinkException: Error, only some Bytes was transmitted to ST-Link"
USBErrorRaised == "StlinkException: USB Error"

\* The arguments the transfers are run with.
CmdArgs ==
  { <<>>, <<242, 0>>, [i \in 1..15 |-> 240 + i], [i \in 1..16 |-> 16 + i],
    [i \in 1..17 |-> 32 + i] }
DataArgs == { None, List(<<>>), List(<<1, 2, 3>>) }
RxLenArgs == { None, Num(0), Num(10), Num(64), Num(66), Num(4097) }
RetryArgs == 0..MaxRetry
ToutArgs == { 200, 1000 }

\* what the probe sends back when n bytes arrive
DeviceReply(n) == [i \in 1..n |-> (i * 3) % 256]

\* a & b on non-negative integers
RECURSIVE BitAnd(_, _)
BitAnd(a, b) ==
  IF a = 0 \/ b = 0 THEN 0
  ELSE (a % 2) * (b % 2) + 2 * BitAnd(a \div 2, b \div 2)

\* the limit is taken one byte too high
TooLargeOffByOne(c) == Len(c) > STLINK_CMD_SIZE_V2 + 1

\* len(cmd) > self.STLINK_CMD_SIZE_V2
TooLarge(c) == Len(c) > STLINK_CMD_SIZE_V2

\* the padding stops one byte short
PadShort(c) == c \o Repeat(0, STLINK_CMD_SIZE_V2 - 1 - Len(c))

\* cmd += [0] * (self.STLINK_CMD_SIZE_V2 - len(cmd))
Pad(c) == c \o Repeat(0, STLINK_CMD_SIZE_V2 - Len(c))

\* read_size of _read
ReadSize(size) ==
  IF size < 64 THEN 64
  ELSE IF size % 4 # 0 THEN BitAnd(size + 3, 4092)
  ELSE size

\* if data: / if rx_len:
DataGiven == data.kind = "list" /\ data.val # <<>>
RxLenGiven == rx_len.kind = "int" /\ rx_len.val # 0

\* The state after a connection was made to the only attached probe.
Init ==
  /\ devices = << [idVendor |-> 1155, idProduct |-> 14152, iSerial |-> Str(HexSerial),
                   bus |-> 1, address |-> 1] >>
  /\ serial = None
  /\ index = 0
  /\ lpc = "returned"
  /\ pos = 1
  /\ self_dev = 1
  /\ self_dev_type = 1
  /\ num_stlink = 1
  /\ multiple_devices = FALSE
  /\ raised = "none"
  /\ NoTransfer
  /\ identity = Unset

\* xfer(c, d, n, r, t) is called
Call(c, d, n, r, t) ==
  /\ xpc = "idle"
  /\ self_xfer_counter <= MaxCounter
  /\ xpc' = "top"
  /\ cmd' = c
  /\ data' = d
  /\ rx_len' = n
  /\ retry' = r
  /\ tout' = t
  /\ call' = [cmd |-> c, retry |-> r, counter |-> self_xfer_counter]
  /\ attempts' = 0
  /\ usb' = <<>>
  /\ result' = None
  /\ UNCHANGED self_xfer_counter

\* top of the while loop: the size check and the padding
PadCmd ==
  /\ xpc = "top"
  /\ attempts' = attempts + 1
  /\ IF TooLarge(cmd)
     THEN xpc' = "raised" /\ result' = Raise(TooManyBytes) /\ cmd' = cmd
     ELSE xpc' = "write_cmd" /\ result' = result /\ cmd' = Pad(cmd)
  /\ UNCHANGED <<self_xfer_counter, data, rx_len, retry, tout, call, usb>>

\* the handler runs the failed USB call again, not the whole transfer
HandleUSBErrorSameStep ==
  IF retry # 0
  THEN xpc' = xpc /\ retry' = retry - 1 /\ result' = result
  ELSE xpc' = "raised" /\ retry' = retry /\ result' = Raise(USBErrorRaised)

\* the handler goes round again without counting retry down
HandleUSBErrorNoCountdown ==
  IF retry # 0
  THEN xpc' = "top" /\ retry' = retry /\ result' = result
  ELSE xpc' = "raised" /\ retry' = retry /\ result' = Raise(USBErrorRaised)

\* except usb.core.USBError: retry, or raise
HandleUSBError ==
  IF retry # 0
  THEN xpc' = "top" /\ retry' = retry - 1 /\ result' = result
  ELSE xpc' = "raised" /\ retry' = retry /\ result' = Raise(USBErrorRaised)

\* what self._dev.write can do with buf: a count, or USBError
WriteOutcomes(buf) ==
  { [kind |-> "count", n |-> k] : k \in {Len(buf), Len(buf) - 1} \ {-1} }
    \cup { [kind |-> "USBError", n |-> 0] }

\* the write is not counted at all
CountWriteSkipped(buf, out) == self_xfer_counter

\* the write is counted only once it went through
CountWriteDone(buf, out) ==
  IF out.kind = "count" /\ out.n = Len(buf) THEN self_xfer_counter + 1
  ELSE self_xfer_counter

\* self._xfer_counter += 1, ahead of the write of buf and whatever its outcome out
CountWrite(buf, out) == self_xfer_counter + 1

\* a short write is handled like USBError: retried while retry lasts
RetryingShortWrite(buf, t, next) ==
  \E out \in WriteOutcomes(buf) :
    /\ self_xfer_counter' = self_xfer_counter + 1
    /\ usb' = Append(usb, [op |-> "write", ep |-> DEV_TYPES[self_dev_type].outPipe,
                           data |-> buf, size |-> Len(buf), tout |-> t,
                           attempt |-> attempts, out |-> out])
    /\ IF out.kind = "USBError" \/ out.n # Len(buf) THEN HandleUSBError
       ELSE IF next = "returned"
            THEN xpc' = "returned" /\ result' = None /\ retry' = retry
            ELSE xpc' = next /\ result' = result /\ retry' = retry

\* self._write(buf, t), going on at xpc = next when the write is complete
_write(buf, t, next) ==
  \E out \in WriteOutcomes(buf) :
    /\ self_xfer_counter' = CountWrite(buf, out)
    /\ usb' = Append(usb, [op |-> "write", ep |-> DEV_TYPES[self_dev_type].outPipe,
                           data |-> buf, size |-> Len(buf), tout |-> t,
                           attempt |-> attempts, out |-> out])
    /\ IF out.kind = "USBError" THEN HandleUSBError
       ELSE IF out.n # Len(buf)
            THEN xpc' = "raised" /\ result' = Raise(ShortWrite) /\ retry' = retry
            ELSE IF next = "returned"
                 THEN xpc' = "returned" /\ result' = None /\ retry' = retry
                 ELSE xpc' = next /\ result' = result /\ retry' = retry

\* self._write(cmd, tout)
WriteCmd ==
  /\ xpc = "write_cmd"
  /\ _write(cmd, tout, IF DataGiven THEN "write_data"
                      ELSE IF RxLenGiven THEN "read" ELSE "returned")
  /\ UNCHANGED <<cmd, data, rx_len, tout, call, attempts>>

\* if data: self._write(data, tout)
WriteData ==
  /\ xpc = "write_data"
  /\ _write(data.val, tout, IF RxLenGiven THEN "read" ELSE "returned")
  /\ UNCHANGED <<cmd, data, rx_len, tout, call, attempts>>

\* what self._dev.read can do when asked for read_size bytes with the caller
\* waiting for size: the bytes that arrived, or USBError
ReadOutcomes(read_size, size) ==
  { [kind |-> "data", val |-> DeviceReply(k)] : k \in {read_size, Min(size, read_size)} }
    \cup { [kind |-> "USBError", val |-> <<>>] }

\* self._read(size, t)
_read(size, t) ==
  \E out \in ReadOutcomes(ReadSize(size), size) :
    /\ usb' = Append(usb, [op |-> "read", ep |-> DEV_TYPES[self_dev_type].inPipe,
                           data |-> out.val, size |-> ReadSize(size), tout |-> t,
                           attempt |-> attempts, out |-> [kind |-> out.kind, n |-> Len(out.val)]])
    /\ IF out.kind = "USBError" THEN HandleUSBError
       ELSE xpc' = "returned" /\ result' = List(Take(out.val, size)) /\ retry' = retry

\* if rx_len: return self._read(rx_len)
ReadReply ==
  /\ xpc = "read"
  /\ _read(rx_len.val, 200)
  /\ UNCHANGED <<self_xfer_counter, cmd, data, rx_len, tout, call, attempts>>

\* xfer has returned or raised: its locals are gone, self._xfer_counter stays
Leave ==
  /\ xpc \in {"returned", "raised"}
  /\ xpc' = "idle"
  /\ cmd' = <<>>
  /\ data' = None
  /\ rx_len' = None
  /\ retry' = 0
  /\ tout' = 200
  /\ call' = [cmd |-> <<>>, retry |-> 0, counter |-> 0]
  /\ attempts' = 0
  /\ usb' = <<>>
  /\ result' = None
  /\ UNCHANGED self_xfer_counter

Next ==
  \/ \E c \in CmdArgs, d \in DataArgs, n \in RxLenArgs, r \in RetryArgs, t \in ToutArgs :
       Call(c, d, n, r, t) /\ UNCHANGED <<lvars, ivars>>
  \/ PadCmd /\ UNCHANGED <<lvars, ivars>>
  \/ WriteCmd /\ UNCHANGED <<lvars, ivars>>
  \/ WriteData /\ UNCHANGED <<lvars, ivars>>
  \/ ReadReply /\ UNCHANGED <<lvars, ivars>>
  \/ Leave /\ UNCHANGED <<lvars, ivars>>

Spec == Init /\ [][Next]_vars

\* A running call goes on: xfer is sequential code, and every USB call it
\* makes is blocking with a timeout, so it returns or raises.
Running == (PadCmd \/ WriteCmd \/ WriteData \/ ReadReply) /\ UNCHANGED <<lvars, ivars>>

FairSpec == Spec /\ WF_vars(Running)

(***************************************************************************)
(* Vocabulary of the properties of the constructor.                        *)
(***************************************************************************)
\* the device equals some descriptor of the table in vendor and product ID
IsProbe(dev) ==
  \E t \in DOMAIN DEV_TYPES :
    dev.idVendor = DEV_TYPES[t].idVendor /\ dev.idProduct = DEV_TYPES[t].idProduct

\* positions of the matching devices, and how many there are
ProbePositions == {d \in DOMAIN devices : IsProbe(devices[d])}
NumMatches == Cardinality(ProbePositions)

\* position of the k-th matching device in scan order
KthMatch(k) ==
  CHOOSE d \in ProbePositions : Cardinality({e \in ProbePositions : e <= d}) = k

\* the constructor is over
Finished == lpc \in {"returned", "raised"}

\* a connection is bound to the device at position d and to its descriptor
BoundTo(d) ==
  /\ lpc = "returned"
  /\ self_dev = d
  /\ self_dev_type \in DOMAIN DEV_TYPES
  /\ devices[d].idVendor = DEV_TYPES[self_dev_type].idVendor
  /\ devices[d].idProduct = DEV_TYPES[self_dev_type].idProduct

\* no matching device has a serial on which _get_serial raises
IdentitiesResolve ==
  \A d \in ProbePositions : _get_serial(devices[d]).kind # "raise"

\* positions of the matching devices whose resolved identity is the serial asked for
WithSerial == {d \in ProbePositions : _get_serial(devices[d]) = serial}
FirstWithSerial == CHOOSE d \in WithSerial : \A e \in WithSerial : d <= e

(***************************************************************************)
(* C1: with more than one matching device, no serial and index 0, the      *)
(* constructor fails with "Found multiple devices".                        *)
(* Violated: logging the earlier match calls _get_serial, which raises     *)
(* AttributeError on a serial without a character of the class.            *)
(***************************************************************************)
C1_AmbiguousSelection ==
  (Finished /\ NumMatches > 1 /\ serial = None /\ index = 0)
    => (lpc = "raised" /\ raised = FoundMultiple)

\* C1 where every identity resolves (holds)
C1_WhenIdentitiesResolve == IdentitiesResolve => C1_AmbiguousSelection

(***************************************************************************)
(* C2: with no serial and 1 <= index <= number of matches, the constructor *)
(* returns bound to the index-th matching device and its descriptor.       *)
(* Violated: the closing log line calls _get_serial, which can raise.      *)
(***************************************************************************)
C2_IndexSelectsKth ==
  (Finished /\ serial = None /\ index >= 1 /\ index <= NumMatches)
    => BoundTo(KthMatch(index))

\* C2 where every identity resolves (holds)
C2_WhenIdentitiesResolve == IdentitiesResolve => C2_IndexSelectsKth

(***************************************************************************)
(* C3: with exactly one matching device, no serial and index 0, the        *)
(* constructor returns bound to that device and its descriptor.            *)
(* Violated: the closing log line calls _get_serial, which can raise.      *)
(***************************************************************************)
C3_SingleMatchBound ==
  (Finished /\ NumMatches = 1 /\ serial = None /\ index = 0)
    => BoundTo(KthMatch(1))

\* C3 where every identity resolves (holds)
C3_WhenIdentitiesResolve == IdentitiesResolve => C3_SingleMatchBound

(***************************************************************************)
(* C4: the constructor fails with "ST-Link/V2 is not connected" exactly    *)
(* when no enumerated device matches a descriptor, whatever serial and     *)
(* index are.                                                              *)
(***************************************************************************)
C4_NotFoundIffNoMatch ==
  /\ raised = NotConnected => NumMatches = 0
  /\ (Finished /\ NumMatches = 0) => (lpc = "raised" /\ raised = NotConnected)

\* devices are attached, none matches, a serial and an index are given
C4_Witness ==
  /\ lpc = "raised" /\ raised = NotConnected
  /\ Len(devices) > 1 /\ Truthy(serial) /\ index > 0

(***************************************************************************)
(* C5: with a serial that is the resolved identity of a matching device,   *)
(* the scan stops at the first such device and the constructor returns     *)
(* bound to it, whatever index is.                                         *)
(* Violated: _get_serial is called on every earlier match, and can raise.  *)
(***************************************************************************)
C5_SerialSelectsFirst ==
  (Finished /\ Truthy(serial) /\ WithSerial # {})
    => (BoundTo(FirstWithSerial) /\ pos = FirstWithSerial /\ ~multiple_devices)

\* C5 where every identity resolves (holds)
C5_WhenIdentitiesResolve == IdentitiesResolve => C5_SerialSelectsFirst

(***************************************************************************)
(* Vocabulary of the properties of xfer.                                   *)
(***************************************************************************)
\* the call is over
Over == xpc \in {"returned", "raised"}

\* the bulk writes among the USB calls of the running call
WriteCalls == {i \in DOMAIN usb : usb[i].op = "write"}
ReadCalls == {i \in DOMAIN usb : usb[i].op = "read"}

\* the USB call at position i is the first one of its attempt
FirstOfAttempt(i) == i = 1 \/ usb[i - 1].attempt # usb[i].attempt

\* attempt a ran into USBError
AttemptFailed(a) ==
  \E i \in DOMAIN usb : usb[i].attempt = a /\ usb[i].out.kind = "USBError"

(***************************************************************************)
(* C6: a cmd of more than 16 bytes makes xfer raise "too many Bytes" on    *)
(* the first pass of the loop: no USB call is issued, retry is not         *)
(* consumed, and the transfer counter keeps its value.                     *)
(***************************************************************************)
C6_CommandTooLarge ==
  (xpc # "idle" /\ Len(call.cmd) > 16)
    => /\ usb = <<>>
       /\ self_xfer_counter = call.counter
       /\ retry = call.retry
       /\ attempts <= 1
       /\ xpc = "top" \/ (xpc = "raised" /\ result = Raise(TooManyBytes))
       /\ xpc = "top" => attempts = 0

\* a 17-byte cmd was rejected in a call that allowed retries
C6_Witness ==
  /\ xpc = "raised" /\ result = Raise(TooManyBytes)
  /\ Len(call.cmd) = 17 /\ call.retry > 0 /\ call.counter > 0

(***************************************************************************)
(* C7: for a cmd of at most 16 bytes, the first bulk write of every        *)
(* attempt carries 16 bytes: the bytes of cmd as passed, then zeros.       *)
(***************************************************************************)
C7_HeaderPadded ==
  Len(call.cmd) <= 16 =>
    /\ \A i \in DOMAIN usb :
         FirstOfAttempt(i) =>
           /\ usb[i].op = "write"
           /\ Len(usb[i].data) = 16
           /\ SubSeq(usb[i].data, 1, Len(call.cmd)) = call.cmd
           /\ \A j \in (Len(call.cmd) + 1)..16 : usb[i].data[j] = 0
    /\ \A a \in 1..attempts :
         (a < attempts \/ xpc \notin {"top", "write_cmd"})
           => \E i \in DOMAIN usb : usb[i].attempt = a

\* a short cmd holding a zero byte was sent again by a retry
C7_Witness ==
  /\ call.cmd = <<242, 0>>
  /\ \E i \in DOMAIN usb : usb[i].attempt = 2 /\ FirstOfAttempt(i) /\ usb[i].op = "write"

(***************************************************************************)
(* C8: a call with retry = r starts at most r + 1 passes of the loop; if   *)
(* every pass runs into USBError the call makes exactly r + 1 passes and   *)
(* raises "USB Error" (on the first error when r = 0).  Every call that    *)
(* was started comes to its end.                                           *)
(***************************************************************************)
C8_Attempts ==
  /\ attempts <= call.retry + 1
  /\ xpc \notin {"idle", "top"} => retry + attempts = call.retry + 1
  /\ (Over /\ attempts >= 1 /\ \A a \in 1..attempts : AttemptFailed(a))
       => (xpc = "raised" /\ result = Raise(USBErrorRaised) /\ attempts = call.retry + 1)
  /\ (Over /\ result = Raise(USBErrorRaised))
       => (attempts = call.retry + 1 /\ \A a \in 1..attempts : AttemptFailed(a))

C8_RetriesExhausted == [](C8_Attempts) /\ ((xpc = "top") ~> Over)

\* every pass of a call with retries failed, in the write and in the read
C8_Witness ==
  /\ xpc = "raised" /\ result = Raise(USBErrorRaised)
  /\ call.retry = MaxRetry /\ attempts = MaxRetry + 1
  /\ \E i \in ReadCalls : usb[i].out.kind = "USBError"
  /\ \E i \in WriteCalls : usb[i].out.kind = "USBError"

(***************************************************************************)
(* C9: the bulk read asks for 64 bytes when rx_len < 64 and else for the   *)
(* smallest multiple of 4 that is >= rx_len, and xfer returns the first    *)
(* rx_len bytes of what was read.                                          *)
(* Violated: read_size &= 0xffc drops the bits from 4096 up.               *)
(***************************************************************************)
RoundedUp(n) == IF n < 64 THEN 64 ELSE ((n + 3) \div 4) * 4

C9_ReadSize ==
  /\ \A i \in ReadCalls : usb[i].size = RoundedUp(rx_len.val)
  /\ (xpc = "returned" /\ RxLenGiven)
       => result = List(Take(usb[Len(usb)].data, rx_len.val))

\* C9 for rx_len up to 4096 (holds)
C9_UpTo4096 == (rx_len.kind = "int" /\ rx_len.val <= 4096) => C9_ReadSize

(***************************************************************************)
(* C10 as stated: a call that raised leaves the transfer counter at the    *)
(* value it had before the call.                                           *)
(* Violated: _write counts before it writes.                               *)
(***************************************************************************)
C10_CounterKeptOnFailure ==
  xpc = "raised" => self_xfer_counter = call.counter

(***************************************************************************)
(* C10 amended: a call that raised leaves the transfer counter at its      *)
(* value before the call plus the number of bulk writes the call started:  *)
(* unchanged after "too many Bytes", at least one higher after a short     *)
(* write or "USB Error".                                                   *)
(***************************************************************************)
C10_CounterCountsWrites ==
  xpc = "raised" =>
    /\ self_xfer_counter = call.counter + Cardinality(WriteCalls)
    /\ result = Raise(TooManyBytes) => self_xfer_counter = call.counter
    /\ result \in {Raise(ShortWrite), Raise(USBErrorRaised)}
         => self_xfer_counter > call.counter

\* a short write of the payload ended a call: two writes were counted
C10_Witness ==
  /\ xpc = "raised" /\ result = Raise(ShortWrite)
  /\ self_xfer_counter = call.counter + 2

(***************************************************************************)
(* C11: the transfer counter never decreases, and a call that returns      *)
(* leaves it strictly greater than it was when the call was made.          *)
(***************************************************************************)
C11_CounterMonotone ==
  /\ [][self_xfer_counter' >= self_xfer_counter]_vars
  /\ [](xpc = "returned" => self_xfer_counter > call.counter)

\* a call without payload and without reply returned after a retry, on a
\* connection that had transferred before
C11_Witness ==
  /\ xpc = "returned" /\ result = None
  /\ call.counter > 0 /\ attempts = 2
  /\ self_xfer_counter = call.counter + 2

(***************************************************************************)
(* C12: a bulk write that reports a count other than the length asked for  *)
(* ends the call with the short-write StlinkException at once: it is the   *)
(* last USB call of the call, and no retry is spent on it.                 *)
(***************************************************************************)
ShortWrites ==
  {i \in WriteCalls : usb[i].out.kind = "count" /\ usb[i].out.n # usb[i].size}

C12_ShortWriteEndsCall ==
  /\ \A i \in ShortWrites :
       /\ i = Len(usb)
       /\ xpc = "raised" /\ result = Raise(ShortWrite)
       /\ attempts = usb[i].attempt
       /\ retry + attempts = call.retry + 1
  /\ (xpc = "raised" /\ result = Raise(ShortWrite)) => ShortWrites # {}

\* the payload write of a retried pass came up short with retries left
C12_Witness ==
  /\ xpc = "raised" /\ result = Raise(ShortWrite)
  /\ retry > 0 /\ attempts = 2
  /\ \E i \in ShortWrites : usb[i].size = 3 /\ RxLenGiven

(***************************************************************************)
(* C14: every pass of the loop issues the USB calls of the whole transfer  *)
(* from the top: the 16-byte header, then the payload if data is given,    *)
(* then the read if rx_len is given.  A USB call that raised USBError is   *)
(* followed by the header write of the next pass, never by itself.         *)
(***************************************************************************)
\* the USB calls of one complete pass
Plan ==
  <<"cmd">> \o (IF DataGiven THEN <<"data">> ELSE <<>>)
            \o (IF RxLenGiven THEN <<"read">> ELSE <<>>)

\* which USB call of its pass the call at position i is
StepOf(i) == Cardinality({j \in 1..i : usb[j].attempt = usb[i].attempt})

\* the USB call e is the step named what
IsStep(e, what) ==
  CASE what = "cmd" -> /\ e.op = "write" /\ Len(e.data) = 16
                       /\ SubSeq(e.data, 1, Len(call.cmd)) = call.cmd
    [] what = "data" -> e.op = "write" /\ e.data = data.val
    [] what = "read" -> e.op = "read"

C14_RetryRestartsTransfer ==
  Len(call.cmd) <= 16 =>
    /\ \A i \in DOMAIN usb :
         /\ StepOf(i) <= Len(Plan)
         /\ IsStep(usb[i], Plan[StepOf(i)])
    /\ usb # <<>> => usb[1].attempt = 1
    /\ \A i \in 1..(Len(usb) - 1) :
         usb[i + 1].attempt = IF usb[i].out.kind = "USBError"
                              THEN usb[i].attempt + 1 ELSE usb[i].attempt
    /\ (usb # <<>> /\ usb[Len(usb)].out.kind = "USBError") =>
         \/ xpc = "raised" /\ retry = 0 /\ attempts = call.retry + 1
         \/ xpc = "top" /\ attempts = usb[Len(usb)].attempt
         \/ xpc = "write_cmd" /\ attempts = usb[Len(usb)].attempt + 1

\* the read of the first pass failed, and the second pass sent the header
\* and the payload again before it read
C14_Witness ==
  /\ \E i \in ReadCalls : usb[i].attempt = 1 /\ usb[i].out.kind = "USBError"
  /\ Cardinality({j \in WriteCalls : usb[j].attempt = 2}) = 2
  /\ \E i \in ReadCalls : usb[i].attempt = 2

(***************************************************************************)
(* C15: every bulk write and every bulk read of a call is issued with the  *)
(* tout the caller passed.                                                 *)
(* Violated: xfer calls self._read(rx_len) without tout, so the read runs  *)
(* with the default of _read.                                              *)
(***************************************************************************)
C15_CallerTimeout == \A i \in DOMAIN usb : usb[i].tout = tout

\* C15 for the writes alone (holds)
C15_WritesOnly == \A i \in WriteCalls : usb[i].tout = tout

(***************************************************************************)
(* C16: when a serial is given and the constructor returns, the resolved   *)
(* identity of the bound device is that serial.                            *)
(* Violated: when no matching device has the serial the scan runs to its   *)
(* end and the last match stays bound.                                     *)
(***************************************************************************)
C16_BoundHasSerial ==
  (lpc = "returned" /\ Truthy(serial)) => _get_serial(devices[self_dev]) = serial

\* C16 where some matching device has the serial and identities resolve (holds)
C16_WhenSerialAttached ==
  (IdentitiesResolve /\ WithSerial # {}) => C16_BoundHasSerial

(***************************************************************************)
(* C17: when no serial is given, index = k > 0 and the constructor         *)
(* returns, at least k devices match and the k-th of them is bound.        *)
(* Violated: with fewer than k matches the scan runs to its end and the    *)
(* last match stays bound.                                                 *)
(***************************************************************************)
C17_BoundIsKth ==
  (lpc = "returned" /\ serial = None /\ index > 0)
    => (index <= NumMatches /\ self_dev = KthMatch(index))

\* C17 where at least index devices match (holds)
C17_WhenEnoughMatches == index <= NumMatches => C17_BoundIsKth

(***************************************************************************)
(* C18: _get_serial returns the string unchanged exactly when its longest  *)
(* run of hexadecimal characters (0-9, a-f, A-F) is 24 long, and else the  *)
(* two-digit hexadecimal dump of its characters.                           *)
(* Violated: the code tests where the first run of [0-9a-fA-f] ends, the   *)
(* range A-f takes in G-Z and punctuation, and a string without such a     *)
(* character makes it raise.                                               *)
(***************************************************************************)
IsHexChar(c) == (c >= 48 /\ c <= 57) \/ (c >= 65 /\ c <= 70) \/ (c >= 97 /\ c <= 102)

\* length of the longest run of hexadecimal characters of s from position k
\* on, cur being the length of the run that ends before k
RECURSIVE LongestFrom(_, _, _, _)
LongestFrom(s, k, cur, best) ==
  IF k > Len(s) THEN best
  ELSE LET c == IF IsHexChar(s[k]) THEN cur + 1 ELSE 0
       IN LongestFrom(s, k + 1, c, IF c > best THEN c ELSE best)

LongestHexRun(s) == LongestFrom(s, 1, 0, 0)

\* the string _get_serial is run on
SerialText == devices[1].iSerial.val

C18_UnchangedIffLongestRun24 ==
  identity # Unset =>
    identity = IF LongestHexRun(SerialText) = 24 THEN Str(SerialText)
               ELSE Str(HexDump(SerialText))

\* C18 for the strings that are hexadecimal characters throughout (holds)
C18_WhenAllHex ==
  (SerialText # <<>> /\ \A k \in DOMAIN SerialText : IsHexChar(SerialText[k]))
    => C18_UnchangedIffLongestRun24

(***************************************************************************)
(* C19: the transfer counter is the number of bulk writes started since    *)
(* construction: it is 0 at first, every step raises it by the number of   *)
(* bulk writes the step starts (one for a header or payload write,         *)
(* whatever its outcome; none for a read, a rejected cmd, a call or a      *)
(* return), and during a call it is its value at the call plus the bulk    *)
(* writes of the call.                                                     *)
(***************************************************************************)
\* the number of bulk writes a step starts
WritesStarted ==
  IF Len(usb') = Len(usb) + 1 /\ usb'[Len(usb')].op = "write" THEN 1 ELSE 0

C19_CounterIsWritesStarted ==
  /\ self_xfer_counter = 0
  /\ [][self_xfer_counter' = self_xfer_counter + WritesStarted]_vars
  /\ [](xpc # "idle" => self_xfer_counter = call.counter + Cardinality(WriteCalls))

\* on a connection that had transferred before: a pass whose read failed,
\* then a pass whose payload write came up short; four writes were counted
C19_Witness ==
  /\ xpc = "raised" /\ result = Raise(ShortWrite)
  /\ call.counter > 0
  /\ \E i \in ReadCalls : usb[i].out.kind = "USBError"
  /\ self_xfer_counter = call.counter + 4

=============================================================================
